---------------------------- MODULE Spec2Model ----------------------------
(***************************************************************************)
(* Model of pymatgen/surface/buildbasis.py, Vaspsurface.transformbasis     *)
(* (and, in its own section, of strain.py's DeformedStructureSet):         *)
(* the enumeration pass over triples of sampled lattice points with its    *)
(* sign normalisation and Miller-index deduplication, the third-vector     *)
(* search, the acceptance checks of the Gram-Schmidt stage and the         *)
(* retention filter and volume check of the coordinate remapper.           *)
(*                                                                         *)
(* Vectors are triples of integers: the bulk bases are integer bases of   *)
(* the simple cubic lattice, so every cross product, dot product and      *)
(* squared norm the code compares is an exact integer.  Angles are only   *)
(* ever compared (with pi/2, with 0, with each other); the comparisons    *)
(* are computed on the cosines.                                           *)
(***************************************************************************)
EXTENDS Integers, Sequences, FiniteSets, TLC

VARIABLES
    pc,            \* position in transformbasis
    basis,         \* argument basis: three lattice vectors
    maxindex,      \* argument maxindex: a sequence of length 1 or 3
    pg,            \* argument pg: the name of the point group
    ncr,           \* the entry of POS the enumeration loop is at
    bb,            \* local bb (vertex chosen by the cyclic scan)
    millercheck,   \* local millercheck
    v1xv2check,    \* local v1xv2check
    ListofS3A2V,   \* local ListofS3A2V: the candidate list
    twovects,      \* local twovects (assigned only when a candidate is appended)
    v3,            \* local v3
    ss,            \* index of the third-vector loop
    last,          \* history: what the enumeration loop did with the last triple
    ideal,         \* history: per class, the first triple of least area seen
    gs,            \* Gram-Schmidt acceptance checks: residuals and position
    rm,            \* remapper tail: transformed atoms, filter position, result
    ds             \* strain.DeformedStructureSet under construction

vars == << pc, basis, maxindex, pg, ncr, bb, millercheck, v1xv2check,
           ListofS3A2V, twovects, v3, ss, last, ideal, gs, rm, ds >>

pipeVars == << pc, basis, maxindex, pg, ncr, bb, millercheck, v1xv2check,
               ListofS3A2V, twovects, v3, ss, last, ideal >>

-----------------------------------------------------------------------------
(* Bounds of the model *)

\* largest value of the single-number maxindex that is explored
MaxIndex == 3

-----------------------------------------------------------------------------
(* Vector algebra (numpy) *)

Zero3 == << 0, 0, 0 >>

Add(a, b) == << a[1] + b[1], a[2] + b[2], a[3] + b[3] >>

Sub(a, b) == << a[1] - b[1], a[2] - b[2], a[3] - b[3] >>

Scale(k, a) == << k * a[1], k * a[2], k * a[3] >>

Dot(a, b) == a[1] * b[1] + a[2] * b[2] + a[3] * b[3]

Cross(a, b) == << a[2] * b[3] - a[3] * b[2],
                  a[3] * b[1] - a[1] * b[3],
                  a[1] * b[2] - a[2] * b[1] >>

\* npl.norm(a) squared; norms are compared through their squares
NormSq(a) == Dot(a, a)

Abs(x) == IF x < 0 THEN -x ELSE x

-----------------------------------------------------------------------------
(* surftool.Surftool: ang, getmillerfrom2v, getsymfam *)

\* ang(a, b) <= pi/2
AngLE90(a, b) == Dot(a, b) >= 0

\* ang(a, b) > 0: a and b do not point the same way
AngGT0(a, b) == ~(Cross(a, b) = Zero3 /\ Dot(a, b) > 0)

\* ang(n, a) < ang(n, b), by the cosines Dot(n,x)/|x| (|n| is common)
AngLess(n, a, b) ==
    LET da == Dot(n, a)
        db == Dot(n, b)
    IN  IF da >= 0 /\ db >= 0 THEN da * da * NormSq(b) > db * db * NormSq(a)
        ELSE IF da >= 0 THEN TRUE
        ELSE IF db >= 0 THEN FALSE
        ELSE da * da * NormSq(b) < db * db * NormSq(a)

RECURSIVE GCD(_, _)
GCD(a, b) == IF b = 0 THEN a ELSE GCD(b, a % b)

\* round(num / den), halves away from zero
RoundDiv(num, den) ==
    LET n == IF den < 0 THEN -num ELSE num
        d == Abs(den)
    IN  IF n >= 0 THEN (2 * n + d) \div (2 * d)
        ELSE -((2 * (-n) + d) \div (2 * d))

\* inverse(transpose(basis)) . n, by Cramer's rule
SolveTransposed(bs, n) ==
    LET det == Dot(bs[1], Cross(bs[2], bs[3]))
    IN  << RoundDiv(Dot(n, Cross(bs[2], bs[3])), det),
           RoundDiv(Dot(n, Cross(bs[3], bs[1])), det),
           RoundDiv(Dot(n, Cross(bs[1], bs[2])), det) >>

\* getmillerfrom2v(basis, v1, v2): the normal in lattice coordinates,
\* rounded and reduced to lowest terms
getmillerfrom2v(bs, a, b) ==
    LET x == SolveTransposed(bs, Cross(a, b))
        g == GCD(GCD(Abs(x[1]), Abs(x[2])), Abs(x[3]))
    IN  IF g = 0 THEN x ELSE << x[1] \div g, x[2] \div g, x[3] \div g >>

Perms3 == { p \in [1..3 -> 1..3] : \A i, j \in 1..3 : p[i] = p[j] => i = j }

Signs3 == [1..3 -> {-1, 1}]

\* the symmetry operations of the named point group, each as the map it
\* applies to an index: "C1" the identity alone, "Oh" the 48 signed permutations
OhOps == { [p |-> p, s |-> s] : p \in Perms3, s \in Signs3 }

C1Ops == { [p |-> [i \in 1..3 |-> i], s |-> [i \in 1..3 |-> 1]] }

PointGroupOps(name) == IF name = "Oh" THEN OhOps ELSE C1Ops

ApplyOp(op, m) == << op.s[1] * m[op.p[1]], op.s[2] * m[op.p[2]], op.s[3] * m[op.p[3]] >>

LexLE(a, b) ==
    \/ a[1] < b[1]
    \/ a[1] = b[1] /\ a[2] < b[2]
    \/ a[1] = b[1] /\ a[2] = b[2] /\ a[3] <= b[3]

\* getsymfam(basis, millerindex, pg)[-1]: the representative of the family,
\* the greatest image in lexicographic order
getsymfam(bs, m, name) ==
    LET fam == { ApplyOp(op, m) : op \in PointGroupOps(name) }
    IN  CHOOSE c \in fam : \A d \in fam : LexLE(d, c)

-----------------------------------------------------------------------------
(* Inputs *)

\* bulk bases: integer bases of the simple cubic lattice
CubicBasis == << << 1, 0, 0 >>, << 0, 1, 0 >>, << 0, 0, 1 >> >>

ShearedBasis == << << 1, 0, 0 >>, << 2, 1, 0 >>, << 0, 0, 1 >> >>

Bases == { CubicBasis, ShearedBasis }

PointGroups == { "C1", "Oh" }

\* maxindex given as a vector: the Miller index of one plane
MillerVectors == { << 1, 0, 0 >>, << 1, 1, 0 >>, << 1, 1, 1 >> }

-----------------------------------------------------------------------------
(* Enumeration pass: sampled points and triples *)

millera(mi) == mi[1]

\* M = len(bravaissup)
NumPoints(mi) == millera(mi) * millera(mi) * millera(mi)

\* bravaissup[idx - 1]: the loops run ii, jj, kk with kk innermost
bravaissup(bs, mi, idx) ==
    LET m == millera(mi)
        i == (idx - 1) \div (m * m)
        j == ((idx - 1) \div m) % m
        k == (idx - 1) % m
    IN  Add(Add(Scale(i, bs[1]), Scale(j, bs[2])), Scale(k, bs[3]))

Done == << >>

\* POS[0], or Done when POS is empty
FirstTriple(M) == IF M >= 3 THEN << 1, 2, 3 >> ELSE Done

\* the entry of POS after t: triples ii < jj < kk in the order of the loops
NextTriple(t, M) ==
    IF t[3] < M THEN << t[1], t[2], t[3] + 1 >>
    ELSE IF t[2] + 1 < M THEN << t[1], t[2] + 1, t[2] + 2 >>
    ELSE IF t[1] + 2 < M THEN << t[1] + 1, t[1] + 2, t[1] + 3 >>
    ELSE Done

\* v1 and v2 at vertex aa of the triple
Edge1(S, aa) == Sub(S[((aa + 1) % 3) + 1], S[(aa % 3) + 1])

Edge2(S, aa) == Sub(S[((aa + 2) % 3) + 1], S[(aa % 3) + 1])

\* the value of aa when the cyclic scan ends: the first vertex whose edge
\* angle is <= pi/2, or 2 when the scan runs out
ScanEnd(S) ==
    IF AngLE90(Edge1(S, 0), Edge2(S, 0)) THEN 0
    ELSE IF AngLE90(Edge1(S, 1), Edge2(S, 1)) THEN 1
    ELSE 2

\* SignBranch with the swap of the y test left out
SignBranchNoYSwap(n) ==
    IF n[1] < 0 THEN "swap"
    ELSE IF n[1] = 0 THEN
        IF n[2] < 0 THEN "keep"
        ELSE IF n[2] = 0 THEN
            IF n[3] < 0 THEN "swap" ELSE "keep"
        ELSE "keep"
    ELSE "skip"

\* the branch the sign test takes on the normal n = v1 x v2:
\* "swap" exchanges v1 and v2 and negates n, "keep" falls through,
\* "skip" is the continue of the outer else
SignBranch(n) ==
    IF n[1] < 0 THEN "swap"
    ELSE IF n[1] = 0 THEN
        IF n[2] < 0 THEN "swap"
        ELSE IF n[2] = 0 THEN
            IF n[3] < 0 THEN "swap" ELSE "keep"
        ELSE "keep"
    ELSE "skip"

-----------------------------------------------------------------------------
(* Enumeration pass: deduplication *)

SetMax(S) == CHOOSE x \in S : \A y \in S : y <= x

\* the positions mm (from 1) at which millercheck[mm] equals millerindex
MatchSet(mc, m) == { mm \in 1..Len(mc) : mc[mm] = m }

\* the matching positions whose recorded normal is longer than the new one
SmallerSet(mc, chk, m, n) ==
    { mm \in MatchSet(mc, m) : NormSq(n) < NormSq(chk[mm]) }

\* Duplicate with the loop over millercheck started at position 1
DuplicateSkipsFirst(mc, m) ==
    IF { mm \in MatchSet(mc, m) : mm > 1 } = {} THEN 0 ELSE 1

\* duplicate after the loop over millercheck
Duplicate(mc, m) == IF MatchSet(mc, m) = {} THEN 0 ELSE 1

\* replace after the loop: the last position (counted from 0) replaced in
\* v1xv2check, and 0 when none was
Replace(mc, chk, m, n) ==
    IF SmallerSet(mc, chk, m, n) = {} THEN 0
    ELSE SetMax(SmallerSet(mc, chk, m, n)) - 1

\* v1xv2check after the loop
CheckAfter(mc, chk, m, n) ==
    [ mm \in 1..Len(chk) |->
        IF mm \in SmallerSet(mc, chk, m, n) THEN n ELSE chk[mm] ]

\* Sobat(threepts, twovects, v3, standardbasis, millerindex, atomcoords);
\* standardbasis and atomcoords are the placeholders eye(3) and [[0,0,0,0]]
\* until the later stages fill them
Sobat(tp, tv, w, m) ==
    [ threepts |-> tp, twovects |-> tv, v3 |-> w, millerindex |-> m ]

\* history: the first pair of least area seen for each class
IdealAfter(idl, m, tv, n) ==
    IF \E q \in 1..Len(idl) : idl[q].millerindex = m
    THEN [ q \in 1..Len(idl) |->
             IF idl[q].millerindex = m /\ NormSq(n) < idl[q].area
             THEN [ millerindex |-> m, twovects |-> tv, area |-> NormSq(n) ]
             ELSE idl[q] ]
    ELSE Append(idl, [ millerindex |-> m, twovects |-> tv, area |-> NormSq(n) ])

NoTriple == [ outcome |-> "none" ]

-----------------------------------------------------------------------------
(* Gram-Schmidt checks and remapper tail: idle values *)

GsIdle == [ at |-> "idle" ]

RmIdle == [ at |-> "idle" ]

\* no DeformedStructureSet is being constructed
DsIdle == [ at |-> "idle" ]

\* the enumeration and third-vector variables while a later stage runs
PipeAt(where) ==
    /\ pc = where
    /\ basis = CubicBasis
    /\ maxindex = << 1 >>
    /\ pg = "C1"
    /\ ncr = Done
    /\ bb = -1
    /\ millercheck = << >>
    /\ v1xv2check = << >>
    /\ ListofS3A2V = << >>
    /\ twovects = << >>
    /\ v3 = << >>
    /\ ss = 0
    /\ last = NoTriple
    /\ ideal = << >>

-----------------------------------------------------------------------------
(* transformbasis: entry and enumeration pass *)

Init ==
    /\ pc = "start"
    /\ basis \in Bases
    /\ maxindex \in { << k >> : k \in 1..MaxIndex } \cup MillerVectors
    /\ pg \in PointGroups
    /\ ncr = Done
    /\ bb = -1
    /\ millercheck = << >>
    /\ v1xv2check = << >>
    /\ ListofS3A2V = << >>
    /\ twovects = << >>
    /\ v3 = << >>
    /\ ss = 0
    /\ last = NoTriple
    /\ ideal = << >>
    /\ gs = GsIdle
    /\ rm = RmIdle
    /\ ds = DsIdle

\* lines 56-98: len(maxindex) == 1; the sample and POS are built
Start ==
    /\ pc = "start"
    /\ Len(maxindex) = 1
    /\ ncr' = FirstTriple(NumPoints(maxindex))
    /\ pc' = IF FirstTriple(NumPoints(maxindex)) = Done THEN "gs" ELSE "enum"
    /\ UNCHANGED << basis, maxindex, pg, bb, millercheck, v1xv2check,
                    ListofS3A2V, twovects, v3, ss, last, ideal, gs, rm, ds >>

\* lines 62-71: len(maxindex) == 3.  Line 67 subscripts the function
\* np.array (np.array[[0,0,0,0]]), which raises TypeError before the Sobat of
\* line 68 is built and before the append of line 69; line 70 would raise
\* StandardError had line 67 passed.  The call ends with the exception and
\* its locals, the empty ListofS3A2V among them, are never returned.
StartVector ==
    /\ pc = "start"
    /\ Len(maxindex) = 3
    /\ pc' = "raised"
    /\ UNCHANGED << basis, maxindex, pg, ncr, bb, millercheck, v1xv2check,
                    ListofS3A2V, twovects, v3, ss, last, ideal, gs, rm, ds >>

\* where the function is once POS is exhausted: the third-vector loop, or
\* past every per-candidate loop when there is no candidate
AfterEnum(lst) == IF Len(lst) = 0 THEN "gs" ELSE "third"

\* lines 101-174: one iteration of the loop over POS
ProcessTriple ==
    /\ pc = "enum"
    /\ ncr # Done
    /\ LET M == NumPoints(maxindex)
           Setof3Atoms == << bravaissup(basis, maxindex, ncr[1]),
                             bravaissup(basis, maxindex, ncr[2]),
                             bravaissup(basis, maxindex, ncr[3]) >>
           aa == ScanEnd(Setof3Atoms)
           v1r == Edge1(Setof3Atoms, aa)
           v2r == Edge2(Setof3Atoms, aa)
           bbNew == IF AngLE90(v1r, v2r) THEN aa ELSE bb
           threepts == << Setof3Atoms[(bbNew % 3) + 1],
                          Setof3Atoms[((bbNew + 1) % 3) + 1],
                          Setof3Atoms[((bbNew + 2) % 3) + 1] >>
           nr == Cross(v1r, v2r)
           br == SignBranch(nr)
           v1 == IF br = "swap" THEN v2r ELSE v1r
           v2 == IF br = "swap" THEN v1r ELSE v2r
           v1xv2 == IF br = "swap" THEN Scale(-1, nr) ELSE nr
           millerindex == getsymfam(basis, getmillerfrom2v(basis, v1, v2), pg)
           duplicate == Duplicate(millercheck, millerindex)
           replace == Replace(millercheck, v1xv2check, millerindex, v1xv2)
           nxt == NextTriple(ncr, M)
           hist(o) == [ outcome |-> o, ncr |-> ncr, normal |-> nr,
                        swapped |-> (br = "swap"), v1 |-> v1, v2 |-> v2,
                        v1xv2 |-> v1xv2, millerindex |-> millerindex ]
       IN  /\ bb' = bbNew
           /\ ncr' = nxt
           /\ IF NormSq(nr) = 0 THEN
                  /\ last' = [ outcome |-> "degenerate", ncr |-> ncr, normal |-> nr ]
                  /\ pc' = IF nxt = Done THEN AfterEnum(ListofS3A2V) ELSE "enum"
                  /\ UNCHANGED << millercheck, v1xv2check, ListofS3A2V,
                                  twovects, v3, ideal >>
              ELSE IF br = "skip" THEN
                  /\ last' = [ outcome |-> "skipped", ncr |-> ncr, normal |-> nr ]
                  /\ pc' = IF nxt = Done THEN AfterEnum(ListofS3A2V) ELSE "enum"
                  /\ UNCHANGED << millercheck, v1xv2check, ListofS3A2V,
                                  twovects, v3, ideal >>
              ELSE
                  /\ ideal' = IdealAfter(ideal, millerindex, << v1, v2 >>, v1xv2)
                  /\ IF duplicate = 0 THEN
                         /\ v1xv2check' = Append(v1xv2check, v1xv2)
                         /\ millercheck' = Append(millercheck, millerindex)
                         /\ twovects' = << v1, v2 >>
                         /\ v3' = Zero3
                         /\ ListofS3A2V' = Append(ListofS3A2V,
                                Sobat(threepts, << v1, v2 >>, Zero3, millerindex))
                         /\ last' = hist("append")
                     ELSE IF replace # 0 THEN
                         /\ v1xv2check' = CheckAfter(millercheck, v1xv2check,
                                                     millerindex, v1xv2)
                         /\ ListofS3A2V' = [ ListofS3A2V EXCEPT ![replace + 1] =
                                Sobat(threepts, twovects, v3, millerindex) ]
                         /\ last' = hist("replace")
                         /\ UNCHANGED << millercheck, twovects, v3 >>
                     ELSE
                         /\ v1xv2check' = CheckAfter(millercheck, v1xv2check,
                                                     millerindex, v1xv2)
                         /\ last' = hist("duplicate")
                         /\ UNCHANGED << millercheck, ListofS3A2V, twovects, v3 >>
                  /\ pc' = IF nxt = Done THEN AfterEnum(ListofS3A2V') ELSE "enum"
    /\ UNCHANGED << basis, maxindex, pg, ss, gs, rm, ds >>

-----------------------------------------------------------------------------
(* Third-vector search *)

\* the 26 triples (ii, jj, kk) of the loops of lines 200-204, in loop order
Neighbourhood ==
    LET all == [ t \in 1..27 |-> << ((t - 1) \div 9) - 1,
                                    (((t - 1) \div 3) % 3) - 1,
                                    ((t - 1) % 3) - 1 >> ]
    IN  SelectSeq(all, LAMBDA c : c # Zero3)

\* v3temp = ii*x + jj*y + kk*z
v3temp(bs, c) == Add(Add(Scale(c[1], bs[1]), Scale(c[2], bs[2])), Scale(c[3], bs[3]))

\* line 212: T <= pi/2 and Tv1 <= pi/2 and Tv2 <= pi/2 and Tv1 > 0 and Tv2 > 0
Qualifies(S7, v1, v2, w) ==
    /\ AngLE90(S7, w)
    /\ AngLE90(v1, w)
    /\ AngLE90(v2, w)
    /\ AngGT0(v1, w)
    /\ AngGT0(v2, w)

\* Improves with T <= lastT
ImprovesOrTies(S7, w, lastv) == lastv = << >> \/ ~AngLess(S7, lastv, w)

\* line 213: T < lastT; lastT is carried as the vector that set it, and
\* as << >> while it is still 100
Improves(S7, w, lastv) == lastv = << >> \/ AngLess(S7, w, lastv)

\* the loops of lines 200-215 from entry t of Neighbourhood on:
\* the pair << vector that set lastT, v3 >> when they end
RECURSIVE ThirdLoop(_, _, _, _, _, _, _)
ThirdLoop(bs, S7, v1, v2, t, lastv, w3) ==
    IF t > Len(Neighbourhood) THEN << lastv, w3 >>
    ELSE LET w == v3temp(bs, Neighbourhood[t])
         IN  IF Qualifies(S7, v1, v2, w) /\ Improves(S7, w, lastv)
             THEN ThirdLoop(bs, S7, v1, v2, t + 1, w, w)
             ELSE ThirdLoop(bs, S7, v1, v2, t + 1, lastv, w3)

\* lines 194-218: one iteration of the loop over the candidates
ThirdVector ==
    /\ pc = "third"
    /\ ss < Len(ListofS3A2V)
    /\ LET S == ListofS3A2V[ss + 1]
           S7 == Cross(S.twovects[1], S.twovects[2])
           r == ThirdLoop(basis, S7, S.twovects[1], S.twovects[2], 1, << >>, v3)
       IN  /\ v3' = r[2]
           /\ ListofS3A2V' = [ ListofS3A2V EXCEPT ![ss + 1].v3 = r[2] ]
    /\ ss' = ss + 1
    /\ pc' = IF ss + 1 = Len(ListofS3A2V) THEN "gs" ELSE "third"
    /\ UNCHANGED << basis, maxindex, pg, ncr, bb, millercheck, v1xv2check,
                    twovects, last, ideal, gs, rm, ds >>

Next == Start \/ StartVector \/ ProcessTriple \/ ThirdVector

Spec == Init /\ [][Next]_vars

-----------------------------------------------------------------------------
(* Gram-Schmidt stage: the acceptance checks of lines 248-273              *)
(*                                                                         *)
(* The checks read residuals computed from the orthonormal frame and from  *)
(* POSBAS.  A residual is carried in units of 1e-4, so the tolerance       *)
(* 0.0001 is 1 and the tolerance 0.001 is 10.  Each check is an action     *)
(* that takes the residuals computed just before it.                       *)

\* 0.0001
TolFine == 1

\* 0.001
TolCoarse == 10

\* residual values tried, in units of 1e-4
ResidualValues == { -20, 0, 1, 10, 20 }

Residuals3 == { << a, b, c >> : a \in ResidualValues, b \in ResidualValues,
                                c \in ResidualValues }

\* line 248, on ang(f1,f2)-pi/2, ang(f3,f2)-pi/2, ang(f1,f3)-pi/2
FrameRaises(r) ==
    Abs(r[1]) >= TolFine \/ Abs(r[2]) >= TolFine \/ Abs(r[3]) >= TolFine

\* line 251, on sproj(f2hat,b1), sproj(f3hat,b1), sproj(f3hat,b2)
LowerRaises(r) == r[1] >= TolCoarse \/ r[2] > TolCoarse \/ r[3] > TolCoarse

\* line 265, on Ta, Tb, Tc
AnglesRaise(r) == r[1] >= TolCoarse \/ r[2] >= TolCoarse \/ r[3] >= TolCoarse

\* line 272, on La, Lb, Lc
LengthsRaise(r) == r[1] > TolFine \/ r[2] >= TolFine \/ r[3] >= TolFine

InitGS ==
    /\ PipeAt("gs")
    /\ gs \in { [ at |-> "frame", frame |-> r, sproj |-> Zero3, T |-> Zero3,
                  L |-> Zero3, standardbasis |-> "eye" ] : r \in Residuals3 }
    /\ rm = RmIdle
    /\ ds = DsIdle

\* line 248-249
CheckFrame ==
    /\ gs.at = "frame"
    /\ gs' = [ gs EXCEPT !.at = IF FrameRaises(gs.frame) THEN "raised" ELSE "lower" ]
    /\ UNCHANGED << pipeVars, rm, ds >>

\* lines 251-259
CheckLower ==
    /\ gs.at = "lower"
    /\ \E r \in Residuals3 :
           gs' = [ gs EXCEPT !.sproj = r,
                             !.at = IF LowerRaises(r) THEN "raised" ELSE "angles",
                             !.standardbasis = IF LowerRaises(r) THEN "eye"
                                               ELSE "POSBAS" ]
    /\ UNCHANGED << pipeVars, rm, ds >>

\* lines 261-266
CheckAngles ==
    /\ gs.at = "angles"
    /\ \E r \in Residuals3 :
           gs' = [ gs EXCEPT !.T = r,
                             !.at = IF AnglesRaise(r) THEN "raised" ELSE "lengths" ]
    /\ UNCHANGED << pipeVars, rm, ds >>

\* lines 268-273
CheckLengths ==
    /\ gs.at = "lengths"
    /\ \E r \in Residuals3 :
           gs' = [ gs EXCEPT !.L = r,
                             !.at = IF LengthsRaise(r) THEN "raised" ELSE "accepted" ]
    /\ UNCHANGED << pipeVars, rm, ds >>

NextGS == CheckFrame \/ CheckLower \/ CheckAngles \/ CheckLengths

SpecGS == InitGS /\ [][NextGS]_vars

-----------------------------------------------------------------------------
(* Coordinate remapper: the retention filter and the volume check of       *)
(* lines 341-361                                                           *)
(*                                                                         *)
(* Fractional coordinates are carried in thousandths (0.999 is 999) and    *)
(* the volume ratio POSBASVOL in hundredths (1.5 is 150).                  *)

\* most bulk atoms (Ra = len(atoms)) explored
MaxBulkAtoms == 2

\* periodic images per bulk atom in NewAtoms
ImageCounts == { 1, 2 }

\* transformed coordinates tried, in thousandths
AtomPositions == { << 0, 0, 0 >>, << 999, 0, 0 >>, << 1000, 0, 0 >>,
                   << -1, 998, 500 >>, << 0, -2, 0 >>, << 500, 0, 999 >> }

\* volume ratios tried, in hundredths
VolumeRatios == { 100, 150, 200 }

\* the lists NewAtoms of Ra * n rows [x, y, z, label], the images of one
\* bulk atom adjacent as the loops of lines 316-321 leave them
NewAtomsLists(Ra, n) ==
    { [ i \in 1..(Ra * n) |-> << f[i][1], f[i][2], f[i][3], (i - 1) \div n >> ] :
        f \in [ 1..(Ra * n) -> AtomPositions ] }

\* RetainsAtom with the upper bounds inclusive
RetainsAtomInclusive(a) ==
    /\ a[1] >= -1 /\ a[1] <= 999
    /\ a[2] >= -1 /\ a[2] <= 999
    /\ a[3] >= -1 /\ a[3] <= 999

\* RetainsAtom with the test on XC left out
RetainsAtomNoXC(a) ==
    /\ a[1] >= -1 /\ a[1] < 999
    /\ a[2] >= -1 /\ a[2] < 999

\* line 346
RetainsAtom(a) ==
    /\ a[1] >= -1 /\ a[1] < 999
    /\ a[2] >= -1 /\ a[2] < 999
    /\ a[3] >= -1 /\ a[3] < 999

\* line 358: np.abs(RPA/Ra - POSBASVOL) >= 0.01, RPA/Ra the quotient of two ints
VolumeRaises(RPA, Ra, vol) == Abs(100 * (RPA \div Ra) - vol) >= 1

InitRemap ==
    /\ PipeAt("remap")
    /\ gs = GsIdle
    /\ ds = DsIdle
    /\ \E Ra \in 1..MaxBulkAtoms, n \in ImageCounts, vol \in VolumeRatios :
         \E atoms \in NewAtomsLists(Ra, n) :
           rm = [ at |-> "filter", Ra |-> Ra, NewAtoms |-> atoms, Nz |-> 0,
                  POSATOMS |-> << >>, POSBASVOL |-> vol, atomcoords |-> << >> ]

\* lines 341-348: one iteration of the loop over NewAtoms
RemoveExcessAtom ==
    /\ rm.at = "filter"
    /\ rm.Nz < Len(rm.NewAtoms)
    /\ LET a == rm.NewAtoms[rm.Nz + 1]
       IN  rm' = [ rm EXCEPT
                     !.Nz = rm.Nz + 1,
                     !.POSATOMS = IF RetainsAtom(a) THEN Append(rm.POSATOMS, a)
                                  ELSE rm.POSATOMS ]
    /\ UNCHANGED << pipeVars, gs, ds >>

\* lines 351-361: the volume check, then the atom list is stored
VolumeCheck ==
    /\ rm.at = "filter"
    /\ rm.Nz = Len(rm.NewAtoms)
    /\ rm' = IF VolumeRaises(Len(rm.POSATOMS), rm.Ra, rm.POSBASVOL)
             THEN [ rm EXCEPT !.at = "raised" ]
             ELSE [ rm EXCEPT !.at = "stored", !.atomcoords = rm.POSATOMS ]
    /\ UNCHANGED << pipeVars, gs, ds >>

NextRemap == RemoveExcessAtom \/ VolumeCheck

SpecRemap == InitRemap /\ [][NextRemap]_vars

-----------------------------------------------------------------------------
(* pymatgen/phonons/strain.py: DeformedStructureSet.__init__                *)
(*                                                                         *)
(* A perturbation is a whole number of hundredths (nd = 0.01 is 1,         *)
(* ns = 0.08 is 8).  An amount of np.linspace is the exact fraction        *)
(* n / d; for the even counts the constructor accepts the middle sample    *)
(* of linspace(-x, x) is exactly 0 in floating point too.  A deformation   *)
(* gradient and a deformed lattice are matrices of numerators over a       *)
(* common denominator d, in which 1.0 is One times the amount's own.       *)

\* largest num_norm and num_shear explored
MaxNum == 4

\* 1.0, the diagonal of np.identity(3), in hundredths
One == 100

\* values of nd and ns, in hundredths
Perturbations == { 0, 1, 8 }

\* np.linspace(-x, x, num=num+1)
linspace(x, num) ==
    IF num = 0 THEN << [ n |-> -x, d |-> 1 ] >>
    ELSE [ k \in 1..(num + 1) |-> [ n |-> x * (2 * (k - 1) - num), d |-> num ] ]

\* a[a.nonzero()]
nonzero(a) == SelectSeq(a, LAMBDA amt : amt.n # 0)

\* the index lists of the two loops
NormalIndices == << << 1, 1 >>, << 2, 2 >>, << 3, 3 >> >>

ShearIndices == << << 1, 2 >>, << 1, 3 >>, << 2, 3 >> >>

\* Deformation.from_index_amount(matrixpos, amt): identity plus amt at matrixpos
from_index_amount(matrixpos, amt) ==
    [ F |-> [ r \in 1..3 |-> [ c \in 1..3 |->
                (IF r = c THEN One * amt.d ELSE 0)
                + (IF << r, c >> = matrixpos THEN amt.n ELSE 0) ] ],
      d |-> One * amt.d ]

\* np.dot(A, B) on 3x3 matrices
MatMul(A, B) ==
    [ r \in 1..3 |-> [ c \in 1..3 |->
        A[r][1] * B[1][c] + A[r][2] * B[2][c] + A[r][3] * B[3][c] ] ]

\* Deformation.apply_to_structure(structure): a copy of the structure with
\* lattice np.dot(lattice.matrix, F); the structure is carried as its lattice
apply_to_structure(defo, structure) ==
    [ lattice |-> MatMul(structure, defo.F), d |-> defo.d ]

\* the loop the constructor is in once pos deformations of the current loop
\* are made: a loop over an empty list of amounts is passed over
DsAfter(where, pos, norm, shear) ==
    IF where = "normal" THEN
        IF pos < 3 * Len(norm) THEN "normal"
        ELSE IF Len(shear) > 0 THEN "shear"
        ELSE "done"
    ELSE IF pos < 3 * Len(shear) THEN "shear"
    ELSE "done"

InitDeform ==
    /\ PipeAt("deform")
    /\ gs = GsIdle
    /\ rm = RmIdle
    /\ \E m \in 0..MaxNum, n \in 0..MaxNum, sym \in BOOLEAN,
          x \in Perturbations, y \in Perturbations, str \in Bases :
         ds = [ at |-> "init", rlxd_str |-> str, nd |-> x, ns |-> y,
                num_norm |-> m, num_shear |-> n, symmetry |-> sym,
                norm_deformations |-> << >>, shear_deformations |-> << >>,
                deformations |-> << >>, def_structs |-> << >>,
                pos |-> 0, error |-> "none" ]

\* lines 120-139: the argument checks, the two lists of amounts, the
\* symmetry branch
DsEnter ==
    /\ ds.at = "init"
    /\ LET norm == nonzero(linspace(ds.nd, ds.num_norm))
           shear == nonzero(linspace(ds.ns, ds.num_shear))
       IN  ds' = IF ds.num_norm % 2 # 0 \/ ds.num_shear % 2 # 0
                 THEN [ ds EXCEPT !.at = "raised", !.error = "ValueError" ]
                 ELSE IF ds.symmetry
                 THEN [ ds EXCEPT !.at = "raised",
                                  !.error = "NotImplementedError",
                                  !.norm_deformations = norm,
                                  !.shear_deformations = shear ]
                 ELSE [ ds EXCEPT !.at = DsAfter("normal", 0, norm, shear),
                                  !.norm_deformations = norm,
                                  !.shear_deformations = shear ]
    /\ UNCHANGED << pipeVars, gs, rm >>

\* lines 142-146: one iteration of the inner loop over norm_deformations
ApplyNormal ==
    /\ ds.at = "normal"
    /\ LET L == Len(ds.norm_deformations)
           ind == NormalIndices[(ds.pos \div L) + 1]
           amount == ds.norm_deformations[(ds.pos % L) + 1]
           defo == from_index_amount(ind, amount)
           nxt == DsAfter("normal", ds.pos + 1, ds.norm_deformations,
                          ds.shear_deformations)
       IN  ds' = [ ds EXCEPT
                     !.deformations = Append(ds.deformations, defo),
                     !.def_structs = Append(ds.def_structs,
                                            apply_to_structure(defo, ds.rlxd_str)),
                     !.pos = IF nxt = "normal" THEN ds.pos + 1 ELSE 0,
                     !.at = nxt ]
    /\ UNCHANGED << pipeVars, gs, rm >>

\* lines 149-153: one iteration of the inner loop over shear_deformations
ApplyShear ==
    /\ ds.at = "shear"
    /\ LET L == Len(ds.shear_deformations)
           ind == ShearIndices[(ds.pos \div L) + 1]
           amount == ds.shear_deformations[(ds.pos % L) + 1]
           defo == from_index_amount(ind, amount)
           nxt == DsAfter("shear", ds.pos + 1, ds.norm_deformations,
                          ds.shear_deformations)
       IN  ds' = [ ds EXCEPT
                     !.deformations = Append(ds.deformations, defo),
                     !.def_structs = Append(ds.def_structs,
                                            apply_to_structure(defo, ds.rlxd_str)),
                     !.pos = ds.pos + 1,
                     !.at = nxt ]
    /\ UNCHANGED << pipeVars, gs, rm >>

NextDeform == DsEnter \/ ApplyNormal \/ ApplyShear

SpecDeform == InitDeform /\ [][NextDeform]_vars


-----------------------------------------------------------------------------
(* Properties of the enumeration pass *)

\* the triple last handled reached the Miller-index computation
ReachedMiller == last.outcome \in { "append", "replace", "duplicate" }

\* the sign rule: the first non-zero coordinate, in the order x, y, z, is positive
SignRuleHolds(n) ==
    \/ n[1] > 0
    \/ n[1] = 0 /\ n[2] > 0
    \/ n[1] = 0 /\ n[2] = 0 /\ n[3] > 0

\* C1: every surviving candidate is the least-area representative of its
\* class: its twovects are the pair of the first triple of least |v1 x v2|
\* among the triples handled so far that map to its Miller index, at
\* whatever position of the list the class is stored.
C1_MinimalAreaRepresentative ==
    \A p \in 1..Len(ListofS3A2V) :
        \E q \in 1..Len(ideal) :
            /\ ideal[q].millerindex = ListofS3A2V[p].millerindex
            /\ ideal[q].twovects = ListofS3A2V[p].twovects

\* C2: the only triples dropped before the Miller-index computation are the
\* degenerate ones: a triple with a non-zero normal is never dropped.
C2_OnlyDegenerateDropped ==
    last.outcome \in { "degenerate", "skipped" } => last.normal = Zero3

\* C3: no two candidates carry the same Miller index, and the candidate at
\* position p carries the Miller index recorded at position p of millercheck.
C3_UniqueAndAligned ==
    /\ Len(ListofS3A2V) = Len(millercheck)
    /\ \A p \in 1..Len(ListofS3A2V) :
           ListofS3A2V[p].millerindex = millercheck[p]
    /\ \A p, q \in 1..Len(ListofS3A2V) :
           ListofS3A2V[p].millerindex = ListofS3A2V[q].millerindex => p = q

\* a candidate has just been replaced in place in a list of several classes
C3_Witness ==
    /\ last.outcome = "replace"
    /\ Len(ListofS3A2V) >= 2

\* C4: the pair handed to the Miller-index computation has a normal that
\* satisfies the sign rule; the pair was swapped exactly when the normal of
\* the original pair broke the rule; the rule applied to the normalised pair
\* swaps nothing.
C4_SignRule ==
    ReachedMiller =>
        /\ SignRuleHolds(Cross(last.v1, last.v2))
        /\ last.v1xv2 = Cross(last.v1, last.v2)
        /\ last.swapped <=> ~SignRuleHolds(last.normal)
        /\ SignBranch(Cross(last.v1, last.v2)) # "swap"

\* a swapped pair reached the Miller-index computation
C4_Witness == ReachedMiller /\ last.swapped

\* C11: transformbasis accepts maxindex in both forms.  With a single number
\* the call never ends in an error at entry; with a 3-vector the call does
\* not end in an error either, and once past entry it holds a candidate for
\* that plane that goes on to the later stages.
C11_VectorFormAccepted ==
    /\ Len(maxindex) = 1 => pc # "raised"
    /\ (Len(maxindex) = 3 /\ pc # "start") =>
           /\ pc # "raised"
           /\ Len(ListofS3A2V) >= 1

\* the in-plane pair derived from a candidate's own threepts: the edges from
\* its first point, in the one order of the two that satisfies the sign rule
OwnEdges(S) ==
    LET e1 == Sub(S.threepts[2], S.threepts[1])
        e2 == Sub(S.threepts[3], S.threepts[1])
    IN  IF SignRuleHolds(Cross(e1, e2)) THEN << e1, e2 >> ELSE << e2, e1 >>

\* C13: every candidate of the list is internally consistent, after appends
\* and after in-place replacements: its twovects are the sign-normalised
\* edge vectors of its own threepts, and its millerindex is the canonical
\* index computed from those twovects.
C13_CandidateConsistent ==
    \A p \in 1..Len(ListofS3A2V) :
        LET S == ListofS3A2V[p]
        IN  /\ S.twovects = OwnEdges(S)
            /\ S.millerindex =
                   getsymfam(basis, getmillerfrom2v(basis, S.twovects[1],
                                                    S.twovects[2]), pg)

-----------------------------------------------------------------------------
(* Properties of the third-vector search *)

\* the vectors of the +/-1 neighbourhood that satisfy the constraints for
\* candidate S
QualifyingSet(S) ==
    { w \in { v3temp(basis, Neighbourhood[t]) : t \in 1..Len(Neighbourhood) } :
        Qualifies(Cross(S.twovects[1], S.twovects[2]),
                  S.twovects[1], S.twovects[2], w) }

\* position of w in the enumeration order
OrderOf(w) ==
    CHOOSE t \in 1..Len(Neighbourhood) : v3temp(basis, Neighbourhood[t]) = w

\* C5: a candidate for which no vector of the neighbourhood qualifies does
\* not get through the third-vector stage: every candidate the stage has
\* stored a v3 on had a qualifying vector.
C5_NoThirdVectorFails ==
    \A p \in 1..ss : QualifyingSet(ListofS3A2V[p]) # {}

\* C6: the v3 stored on a candidate that has a qualifying vector is a
\* qualifying vector of least angle to n = v1 x v2, and the first such in
\* the enumeration order.
C6_ThirdVectorMinimal ==
    \A p \in 1..ss :
        LET S == ListofS3A2V[p]
            n == Cross(S.twovects[1], S.twovects[2])
            Q == QualifyingSet(S)
        IN  Q # {} =>
              /\ S.v3 \in Q
              /\ \A w \in Q : ~AngLess(n, w, S.v3)
              /\ \A w \in Q : ~AngLess(n, S.v3, w) => OrderOf(S.v3) <= OrderOf(w)

\* a candidate with two qualifying vectors of the same least angle
C6_Witness ==
    \E p \in 1..ss :
        LET S == ListofS3A2V[p]
            n == Cross(S.twovects[1], S.twovects[2])
            Q == QualifyingSet(S)
        IN  /\ S.v3 \in Q
            /\ \E w \in Q : w # S.v3 /\ ~AngLess(n, S.v3, w)

-----------------------------------------------------------------------------
(* Properties of the Gram-Schmidt checks and of the remapper *)

\* C8: when the checks accept, every residual is within tolerance in
\* magnitude: the projections and the angle differences below 1e-3, the
\* length differences below 1e-4.
C8_ResidualsWithinTolerance ==
    gs.at = "accepted" =>
        /\ \A i \in 1..3 : Abs(gs.sproj[i]) < TolCoarse
        /\ \A i \in 1..3 : Abs(gs.T[i]) < TolCoarse
        /\ \A i \in 1..3 : Abs(gs.L[i]) < TolFine

\* the check |RPA/Ra - POSBASVOL| < 0.01 on the exact quotient
ExactVolumeOK(RPA, Ra, vol) == Abs(100 * RPA - vol * Ra) < Ra

\* C7: the remapper stores the atom list exactly when
\* |retained/bulk - volume ratio| < 0.01 on the exact quotient, and fails
\* otherwise.
C7_ExactQuotient ==
    /\ rm.at = "stored" => ExactVolumeOK(Len(rm.POSATOMS), rm.Ra, rm.POSBASVOL)
    /\ rm.at = "raised" => ~ExactVolumeOK(Len(rm.POSATOMS), rm.Ra, rm.POSBASVOL)

\* the window -0.001 <= c < 0.999 on one coordinate
InWindow(c) == -1 <= c /\ c < 999

AtomInWindow(a) == InWindow(a[1]) /\ InWindow(a[2]) /\ InWindow(a[3])

\* the rows of NewAtoms the filter has been through
Filtered == { i \in 1..Len(rm.NewAtoms) : i <= rm.Nz }

\* C9: the filter keeps a row, label included, exactly when its three
\* coordinates are in the window, and the list stored on the candidate is
\* the list of the rows kept.
C9_RetentionFilter ==
    rm.at # "idle" =>
        /\ \A i \in Filtered :
               AtomInWindow(rm.NewAtoms[i]) <=>
                   \E j \in 1..Len(rm.POSATOMS) : rm.POSATOMS[j] = rm.NewAtoms[i]
        /\ \A j \in 1..Len(rm.POSATOMS) :
               \E i \in Filtered : rm.NewAtoms[i] = rm.POSATOMS[j]
        /\ Len(rm.POSATOMS) =
               Cardinality({ i \in Filtered : AtomInWindow(rm.NewAtoms[i]) })
        /\ rm.at = "stored" => rm.atomcoords = rm.POSATOMS

\* an atom list was stored after rows were kept and rows were dropped
C9_Witness ==
    /\ rm.at = "stored"
    /\ \E i \in Filtered : AtomInWindow(rm.NewAtoms[i]) /\ rm.NewAtoms[i][4] # 0
    /\ \E i \in Filtered : ~AtomInWindow(rm.NewAtoms[i])

Kept(i) == \E j \in 1..Len(rm.POSATOMS) : rm.POSATOMS[j] = rm.NewAtoms[i]

CoordsOf(a) == << a[1], a[2], a[3] >>

\* C10 as stated: (0,0,0) and (0.999,0,0) are retained, (1.0,0,0) is excluded
C10_BoundaryAsStated ==
    rm.at # "idle" =>
        \A i \in Filtered :
            /\ CoordsOf(rm.NewAtoms[i]) = << 0, 0, 0 >> => Kept(i)
            /\ CoordsOf(rm.NewAtoms[i]) = << 999, 0, 0 >> => Kept(i)
            /\ CoordsOf(rm.NewAtoms[i]) = << 1000, 0, 0 >> => ~Kept(i)

\* C10: an atom at (0,0,0) is retained; atoms at (0.999,0,0) and at
\* (1.0,0,0) are excluded.
C10_Boundary ==
    rm.at # "idle" =>
        \A i \in Filtered :
            /\ CoordsOf(rm.NewAtoms[i]) = << 0, 0, 0 >> => Kept(i)
            /\ CoordsOf(rm.NewAtoms[i]) = << 999, 0, 0 >> => ~Kept(i)
            /\ CoordsOf(rm.NewAtoms[i]) = << 1000, 0, 0 >> => ~Kept(i)

\* the filter has been through atoms at all three boundary positions
C10_Witness ==
    /\ rm.at # "idle"
    /\ \E i \in Filtered : CoordsOf(rm.NewAtoms[i]) = << 0, 0, 0 >>
    /\ \E i \in Filtered : CoordsOf(rm.NewAtoms[i]) = << 999, 0, 0 >>
    /\ \E i \in Filtered : CoordsOf(rm.NewAtoms[i]) = << 1000, 0, 0 >>

-----------------------------------------------------------------------------
(* Properties of DeformedStructureSet *)

\* C12: a DeformedStructureSet constructed with symmetry = False and even
\* num_norm = m and num_shear = n holds m + n deformations and m + n deformed
\* structures; an odd num_norm or num_shear raises ValueError before any
\* deformation is generated.  The count is stated for the ordinary case,
\* non-zero nd and ns and m, n >= 2, where linspace yields m and n non-zero
\* amounts.
C12_GeneratesMPlusN ==
    /\ (ds.at = "done" /\ ds.nd # 0 /\ ds.ns # 0
           /\ ds.num_norm >= 2 /\ ds.num_shear >= 2) =>
           /\ Len(ds.deformations) = ds.num_norm + ds.num_shear
           /\ Len(ds.def_structs) = ds.num_norm + ds.num_shear
    /\ (ds.at \notin { "idle", "init" }
           /\ (ds.num_norm % 2 # 0 \/ ds.num_shear % 2 # 0)) =>
           /\ ds.at = "raised"
           /\ ds.error = "ValueError"
           /\ ds.deformations = << >>
           /\ ds.def_structs = << >>

=============================================================================
